---------------------------- MODULE Spec2Model ----------------------------
(***************************************************************************)
(* SVI lifecycle handlers of the EVPN bridge (CreateSvi, DeleteSvi,         *)
(* UpdateSvi, GetSvi) over the in-memory registries and the kernel netlink  *)
(* interface.                                                               *)
(*                                                                          *)
(* Strings that the code takes apart (resource names) are modelled as the   *)
(* sequence of their "/"-separated segments, so that                        *)
(* "//network.opiproject.org/svis/svi0" is                                  *)
(* <<"", "", "network.opiproject.org", "svis", "svi0">>.                    *)
(***************************************************************************)
EXTENDS Integers, Sequences, FiniteSets, TLC

VARIABLES
    Svis,        \* s.Svis: canonical name -> stored Svi object
    Bridges,     \* s.Bridges: canonical name -> LogicalBridge object
    Vrfs,        \* s.Vrfs: canonical name -> Vrf object
    links,       \* kernel: link name -> link attributes
    bridgeVlans, \* kernel: VLAN ids admitted on the tenant bridge (self)
    last,        \* the last event: request, its result and the kernel calls it issued
    inflight     \* requests whose handlers run concurrently: caller -> the
                 \* request, the position its handler reached and its locals

vars == <<Svis, Bridges, Vrfs, links, bridgeVlans, last, inflight>>

----------------------------------------------------------------------------
(* Bounds of the model *)

\* longest GwIpPrefix list a request carries
MaxGw == 2

----------------------------------------------------------------------------
(* Resource names *)

tenantbridgeName == "br-tenant"

\* fmt.Sprintf("//network.opiproject.org/svis/%s", resourceID): the collection
\* argument is not used
resourceIDToFullName(collection, resourceID) ==
    <<"", "", "network.opiproject.org", "svis", resourceID>>

RECURSIVE StripTrailing(_)
\* a path without its trailing slashes
StripTrailing(p) ==
    IF Len(p) > 1 /\ p[Len(p)] = "" THEN StripTrailing(SubSeq(p, 1, Len(p) - 1))
    ELSE p

\* path.Base: the last element of the path; "." for the empty path, "/" for
\* a path of slashes only
PathBase(p) ==
    IF p = <<"">> THEN "."
    ELSE LET q == StripTrailing(p)
         IN  IF q = <<"">> THEN "/" ELSE q[Len(q)]

\* resourcename.Validate: a non-empty name, optionally a full name starting
\* with "//host", whose segments are all non-empty
resourcenameValidate(name) ==
    LET body == IF Len(name) >= 3 /\ name[1] = "" /\ name[2] = ""
                THEN SubSeq(name, 3, Len(name)) ELSE name
    IN  /\ Len(body) >= 1
        /\ \A i \in 1..Len(body) : body[i] # ""

\* IDs a client may supply as svi_id
UserSettableIds == {"svi0"}
\* an ID with characters a user-settable ID may not have
BadId == "Svi_0"
\* IDs resourceid.NewSystemGenerated() may return (UUIDs, never user-settable)
SystemGeneratedIds == {"6f1c2a9e-uuid"}

\* the ID of a second SVI, for the runs with two SVIs side by side
SecondSviId == "svi1"

\* resourceid.ValidateUserSettable
resourceidValidateUserSettable(id) == id \in UserSettableIds \cup {SecondSviId}

----------------------------------------------------------------------------
(* The bridge and VRF registries, as the package's fixtures fill them *)

testLogicalBridgeID == "opi-bridge9"
testLogicalBridgeName == resourceIDToFullName("bridges", testLogicalBridgeID)
testLogicalBridgeVlanId == 22
testLogicalBridgeWithStatus ==
    [Name |-> testLogicalBridgeName,
     Spec |-> [Vni |-> 11, VlanId |-> testLogicalBridgeVlanId],
     Status |-> "UP"]

testVrfID == "opi-vrf8"
testVrfName == resourceIDToFullName("vrfs", testVrfID)
testVrfWithStatus ==
    [Name |-> testVrfName, Spec |-> [Vni |-> 1000], Status |-> [LocalAs |-> 4]]

\* valid names that no registry holds
absentBridgeName == resourceIDToFullName("bridges", "opi-bridge7")
absentVrfName == resourceIDToFullName("vrfs", "opi-vrf7")
\* a name with an empty segment, which resourcename.Validate rejects
invalidName == <<"bridges", "", "x">>

----------------------------------------------------------------------------
(* Svi objects *)

Mac1 == <<170, 187, 204, 0, 0, 65>>

\* gateway prefix i: 10.0.0.i/24 as the API carries it (V4Addr as uint32)
GwPrefix(i) == [Addr |-> 167772160 + i, Len |-> 24]

MkSpec(vrf, lb, mac, gw, bgp, as) ==
    [Vrf |-> vrf, LogicalBridge |-> lb, MacAddress |-> mac, GwIpPrefix |-> gw,
     EnableBgp |-> bgp, RemoteAs |-> as]

GwFull == [i \in 1..MaxGw |-> GwPrefix(i)]

\* the specs requests carry: a full one, a bare one (no MAC, no gateway, no
\* BGP), and one for each way a reference fails to resolve
FullSpec == MkSpec(testVrfName, testLogicalBridgeName, Mac1, GwFull, TRUE, 65000)
BareSpec == MkSpec(testVrfName, testLogicalBridgeName, <<>>, <<>>, FALSE, 0)
SviSpecs ==
    { FullSpec, BareSpec }
    \cup { MkSpec(testVrfName, lb, Mac1, GwFull, TRUE, 65000) :
        lb \in {absentBridgeName, invalidName} }
    \cup { MkSpec(v, testLogicalBridgeName, Mac1, GwFull, TRUE, 65000) :
        v \in {absentVrfName, invalidName} }

\* the spec of a request that leaves its required fields unset
ZeroSpec == MkSpec(<<"">>, <<"">>, <<>>, <<>>, FALSE, 0)
NoName == <<"">>
\* a nil *pb.Svi (also stands for the empty message DeleteSvi returns)
NilSvi == [Name |-> NoName, Spec |-> ZeroSpec, Status |-> "NIL"]

\* fieldbehavior.ValidateRequiredFields: the references of an Svi and the
\* name of a Get or Delete request are required
RequiredSviFields(spec) == spec.Vrf # <<"">> /\ spec.LogicalBridge # <<"">>
RequiredName(name) == name # NoName

----------------------------------------------------------------------------
(* The kernel, as netlink shows it *)

\* a link the handlers did not create (ip link add by an operator or another
\* service): no VLAN parent, no address, down
ExternalLink ==
    [parent |-> "", vlanId |-> 0, mac |-> <<>>, addrs |-> {}, master |-> "",
     up |-> FALSE]

\* one netlink call: the function, the device it names, its numeric argument
\* and the second device it names
KCall(fn, dev, num, peer) == [fn |-> fn, dev |-> dev, num |-> num, peer |-> peer]

\* failure injection: the inj-th netlink call of the request fails (0: none);
\* calls is the call log up to and including the call in question
NoFail == 0
Fails(inj, calls) == inj = Len(calls)

\* netlink.LinkByName succeeds iff the kernel has a link of that name
netlinkLinkByName(lk, name) == name \in DOMAIN lk

\* a call that names a link by a struct the kernel never returned (Index 0)
\* is resolved by name, and fails when no such link exists
LinkCallOk(lk, dev, inj, calls) == dev \in DOMAIN lk /\ ~Fails(inj, calls)

\* binary.BigEndian.PutUint32 and net.CIDRMask(len, 32): the address the
\* kernel is given, as its four bytes and the mask length
KernelAddr(gwip) ==
    LET a == gwip.Addr  \* GetV4Addr(), a uint32
    IN  <<(a \div 16777216) % 256, (a \div 65536) % 256, (a \div 256) % 256,
          a % 256, gwip.Len>>

\* what a handler hands back: the registry and kernel it leaves, the status
\* code, the canonical name it worked on, the returned object and the netlink
\* calls it issued, in order
Result(svis, lk, vl, code, name, ret, calls) ==
    [Svis |-> svis, links |-> lk, vlans |-> vl, code |-> code, name |-> name,
     ret |-> ret, calls |-> calls]

----------------------------------------------------------------------------
(* CreateSvi *)

RECURSIVE AssignAddrs(_, _, _, _, _, _)
\* the loop over in.Svi.Spec.GwIpPrefix from index i on: one AddrAdd each,
\* stopping at the first that fails
AssignAddrs(lk, calls, dev, gw, i, inj) ==
    IF i > Len(gw) THEN [ok |-> TRUE, links |-> lk, calls |-> calls]
    ELSE LET addr == KernelAddr(gw[i])
             c == Append(calls, KCall("AddrAdd", dev, addr, ""))
         IN  IF ~LinkCallOk(lk, dev, inj, c)
             THEN [ok |-> FALSE, links |-> lk, calls |-> c]
             ELSE AssignAddrs([lk EXCEPT ![dev].addrs = @ \cup {addr}], c, dev,
                              gw, i + 1, inj)

\* a store that keeps the entry the registry already has under the name
SvisPutIfAbsent(svis, name, response) ==
    [n \in DOMAIN svis \cup {name} |->
        IF n \in DOMAIN svis THEN svis[n] ELSE response]

\* the registry after s.Svis[name] = response
SvisPut(svis, name, response) ==
    [n \in DOMAIN svis \cup {name} |-> IF n = name THEN response ELSE svis[n]]

\* CreateSviActivate with the commit ahead of the activation: the entry is
\* stored although LinkSetUp failed
CreateSviActivateEarlyCommit(svis, lk, vl, name, resourceID, spec, calls, inj) ==
    LET c == Append(calls, KCall("LinkSetUp", resourceID, <<>>, ""))
        response == [Name |-> name, Spec |-> spec, Status |-> "UP"]
    IN
    IF ~LinkCallOk(lk, resourceID, inj, c)
    THEN Result(SvisPut(svis, name, response), lk, vl, "KernelError", name,
                NilSvi, c)
    ELSE Result(SvisPut(svis, name, response),
                [lk EXCEPT ![resourceID].up = TRUE], vl, "OK", name, response, c)

\* activation and commit: LinkSetUp, then the response is cloned from the
\* request, marked UP and stored
CreateSviActivate(svis, lk, vl, name, resourceID, spec, calls, inj) ==
    LET c == Append(calls, KCall("LinkSetUp", resourceID, <<>>, "")) IN
    IF ~LinkCallOk(lk, resourceID, inj, c)
    THEN Result(svis, lk, vl, "KernelError", name, NilSvi, c)
    ELSE
    LET response == [Name |-> name, Spec |-> spec, Status |-> "UP"]
    IN  Result(SvisPut(svis, name, response),
               [lk EXCEPT ![resourceID].up = TRUE], vl, "OK", name, response, c)

\* VRF lookup, VRF device lookup and master attachment
CreateSviAttach(svis, vrfs, lk, vl, name, resourceID, spec, calls, inj) ==
    IF ~resourcenameValidate(spec.Vrf)
    THEN Result(svis, lk, vl, "InvalidArgument", name, NilSvi, calls)
    ELSE IF spec.Vrf \notin DOMAIN vrfs
    THEN Result(svis, lk, vl, "NotFound", name, NilSvi, calls)
    ELSE
    LET vrfdev == PathBase(vrfs[spec.Vrf].Name)
        c1 == Append(calls, KCall("LinkByName", vrfdev, <<>>, ""))
    IN
    IF ~netlinkLinkByName(lk, vrfdev)
    THEN Result(svis, lk, vl, "NotFound", name, NilSvi, c1)
    ELSE
    LET c2 == Append(c1, KCall("LinkSetMaster", resourceID, <<>>, vrfdev)) IN
    IF ~LinkCallOk(lk, resourceID, inj, c2)
    THEN Result(svis, lk, vl, "KernelError", name, NilSvi, c2)
    ELSE
    CreateSviActivate(svis, [lk EXCEPT ![resourceID].master = vrfdev], vl, name,
                      resourceID, spec, c2, inj)

\* VLAN admission on the tenant bridge, the vlandev struct (which no call
\* hands to the kernel as a new link), MAC and addresses
CreateSviConfigure(svis, vrfs, lk, vl, name, resourceID, spec, bridgeObject, calls, inj) ==
    LET vid == bridgeObject.Spec.VlanId % 65536
        c1 == Append(calls, KCall("BridgeVlanAdd", tenantbridgeName, <<vid>>, ""))
    IN
    IF Fails(inj, c1)
    THEN Result(svis, lk, vl, "KernelError", name, NilSvi, c1)
    ELSE
    LET vl1 == vl \cup {vid}
        hasMac == Len(spec.MacAddress) > 0
        c2 == IF hasMac
              THEN Append(c1, KCall("LinkSetHardwareAddr", resourceID,
                                    spec.MacAddress, ""))
              ELSE c1
    IN
    IF hasMac /\ ~LinkCallOk(lk, resourceID, inj, c2)
    THEN Result(svis, lk, vl1, "KernelError", name, NilSvi, c2)
    ELSE
    LET lk1 == IF hasMac THEN [lk EXCEPT ![resourceID].mac = spec.MacAddress]
               ELSE lk
        a == AssignAddrs(lk1, c2, resourceID, spec.GwIpPrefix, 1, inj)
    IN
    IF ~a.ok
    THEN Result(svis, a.links, vl1, "KernelError", name, NilSvi, a.calls)
    ELSE CreateSviAttach(svis, vrfs, a.links, vl1, name, resourceID, spec,
                         a.calls, inj)

\* CreateSviResolve going on with a zero-valued bridge object when the
\* registry has none under the name
CreateSviResolveNoCheck(svis, bridges, vrfs, lk, vl, name, resourceID, spec, calls, inj) ==
    IF ~resourcenameValidate(spec.LogicalBridge)
    THEN Result(svis, lk, vl, "InvalidArgument", name, NilSvi, calls)
    ELSE CreateSviConfigure(svis, vrfs, lk, vl, name, resourceID, spec,
                            IF spec.LogicalBridge \in DOMAIN bridges
                            THEN bridges[spec.LogicalBridge]
                            ELSE [Name |-> NoName,
                                  Spec |-> [Vni |-> 0, VlanId |-> 0],
                                  Status |-> "NIL"],
                            calls, inj)

\* the LogicalBridge reference is validated and resolved in the registry
CreateSviResolve(svis, bridges, vrfs, lk, vl, name, resourceID, spec, calls, inj) ==
    IF ~resourcenameValidate(spec.LogicalBridge)
    THEN Result(svis, lk, vl, "InvalidArgument", name, NilSvi, calls)
    ELSE IF spec.LogicalBridge \notin DOMAIN bridges
    THEN Result(svis, lk, vl, "NotFound", name, NilSvi, calls)
    ELSE CreateSviConfigure(svis, vrfs, lk, vl, name, resourceID, spec,
                            bridges[spec.LogicalBridge], calls, inj)

\* CreateSviTenant with the bridge reference resolved in the registry before
\* the tenant bridge device is looked up
CreateSviTenantBridgeFirst(svis, bridges, vrfs, lk, vl, name, resourceID, spec, inj) ==
    LET c1 == <<KCall("LinkByName", tenantbridgeName, <<>>, "")>> IN
    IF ~resourcenameValidate(spec.LogicalBridge)
    THEN Result(svis, lk, vl, "InvalidArgument", name, NilSvi, <<>>)
    ELSE IF spec.LogicalBridge \notin DOMAIN bridges
    THEN Result(svis, lk, vl, "NotFound", name, NilSvi, <<>>)
    ELSE IF ~netlinkLinkByName(lk, tenantbridgeName)
    THEN Result(svis, lk, vl, "NotFound", name, NilSvi, c1)
    ELSE CreateSviResolve(svis, bridges, vrfs, lk, vl, name, resourceID, spec,
                          c1, inj)

\* the tenant bridge device is looked up in the kernel before anything else
CreateSviTenant(svis, bridges, vrfs, lk, vl, name, resourceID, spec, inj) ==
    LET c1 == <<KCall("LinkByName", tenantbridgeName, <<>>, "")>> IN
    IF ~netlinkLinkByName(lk, tenantbridgeName)
    THEN Result(svis, lk, vl, "NotFound", name, NilSvi, c1)
    ELSE CreateSviResolve(svis, bridges, vrfs, lk, vl, name, resourceID, spec,
                          c1, inj)

\* CreateSviExisting as an upsert: the entry is replaced by the new request
CreateSviExistingUpsert(svis, lk, vl, name, in) ==
    LET response == [Name |-> name, Spec |-> in.Spec, Status |-> "UP"]
    IN  Result(SvisPut(svis, name, response), lk, vl, "OK", name, response, <<>>)

\* an entry exists under the name: it is returned as it is stored
CreateSviExisting(svis, lk, vl, name, in) ==
    Result(svis, lk, vl, "OK", name, svis[name], <<>>)

\* CreateSvi(in) on registries svis, bridges, vrfs and kernel lk, vl; gen is
\* the ID resourceid.NewSystemGenerated() returns, inj the netlink call that
\* fails
CreateSviHandler(svis, bridges, vrfs, lk, vl, in, gen, inj) ==
    IF ~RequiredSviFields(in.Spec)
    THEN Result(svis, lk, vl, "InvalidArgument", NoName, NilSvi, <<>>)
    ELSE IF in.SviId # "" /\ ~resourceidValidateUserSettable(in.SviId)
    THEN Result(svis, lk, vl, "InvalidArgument", NoName, NilSvi, <<>>)
    ELSE
    LET resourceID == IF in.SviId # "" THEN in.SviId ELSE gen
        name == resourceIDToFullName("svis", resourceID)
        spec == in.Spec
    IN
    IF name \in DOMAIN svis
    THEN CreateSviExisting(svis, lk, vl, name, in)
    ELSE CreateSviTenant(svis, bridges, vrfs, lk, vl, name, resourceID, spec, inj)

----------------------------------------------------------------------------
(* Requests *)

\* fieldmask.Validate: every path of the mask names a field of the Svi
SviFieldPaths ==
    {"*", "name", "spec", "spec.vrf", "spec.logical_bridge", "spec.mac_address",
     "spec.gw_ip_prefix", "spec.enable_bgp", "spec.remote_as", "status"}
fieldmaskValidate(mask) == \A i \in 1..Len(mask) : mask[i] \in SviFieldPaths

\* the canonical names of the SVIs clients ask for
SviNames == { resourceIDToFullName("svis", id) : id \in UserSettableIds }

\* the specs Create and Update requests carry
RequestSpecs == SviSpecs \cup {ZeroSpec}

\* CreateSviRequest: every spec under a user-supplied ID and under no ID (a
\* system-generated one), and a request whose ID is not user-settable
CreateRequests ==
    { [SviId |-> id, Spec |-> spec] :
        id \in UserSettableIds \cup {""}, spec \in RequestSpecs }
    \cup { [SviId |-> BadId, Spec |-> FullSpec] }

\* DeleteSviRequest and GetSviRequest: an SVI name, a malformed name, no name
RequestNames == SviNames \cup {invalidName, NoName}
DeleteRequests ==
    { [Name |-> n, AllowMissing |-> am] : n \in RequestNames, am \in BOOLEAN }
GetRequests == { [Name |-> n] : n \in RequestNames }

\* UpdateSviRequest: every spec under an SVI name, with a mask that names a
\* field and one that does not, and requests with a malformed or no name
UpdateRequests ==
    { [Svi |-> [Name |-> n, Spec |-> spec], UpdateMask |-> mask] :
        n \in SviNames, spec \in RequestSpecs,
        mask \in {<<"spec.mac_address">>, <<"spec.bogus">>} }
    \cup { [Svi |-> [Name |-> n, Spec |-> FullSpec],
            UpdateMask |-> <<"spec.mac_address">>] : n \in {invalidName, NoName} }

----------------------------------------------------------------------------
(* DeleteSvi *)

\* the kernel's links after link dev is deleted: its slaves lose their master
KernelLinkDel(lk, dev) ==
    [n \in DOMAIN lk \ {dev} |->
        IF lk[n].master = dev THEN [lk[n] EXCEPT !.master = ""] ELSE lk[n]]

\* the registry after delete(s.Svis, name)
SvisDelete(svis, name) == [n \in DOMAIN svis \ {name} |-> svis[n]]

\* DeleteSviMissing that does not look at AllowMissing
DeleteSviMissingStrict(svis, lk, vl, in) ==
    Result(svis, lk, vl, "NotFound", in.Name, NilSvi, <<>>)

\* no entry under the name: success iff the request allows it
DeleteSviMissing(svis, lk, vl, in) ==
    IF in.AllowMissing
    THEN Result(svis, lk, vl, "OK", in.Name, NilSvi, <<>>)
    ELSE Result(svis, lk, vl, "NotFound", in.Name, NilSvi, <<>>)

\* DeleteSviNoLink that takes a missing link as already deleted when the
\* request allows a missing resource, and removes the entry
DeleteSviNoLinkAllowMissing(svis, lk, vl, in, obj, calls) ==
    IF in.AllowMissing
    THEN Result(SvisDelete(svis, obj.Name), lk, vl, "OK", in.Name, NilSvi, calls)
    ELSE Result(svis, lk, vl, "NotFound", in.Name, NilSvi, calls)

\* the entry's link is not in the kernel: not-found, whatever AllowMissing
DeleteSviNoLink(svis, lk, vl, in, obj, calls) ==
    Result(svis, lk, vl, "NotFound", in.Name, NilSvi, calls)

\* DeleteSviLink that removes the entry before the kernel steps
DeleteSviLinkEarlyRemove(svis, lk, vl, in, obj, resourceID, calls, inj) ==
    LET c2 == Append(calls, KCall("LinkSetDown", resourceID, <<>>, ""))
        removed == SvisDelete(svis, obj.Name)
    IN
    IF ~LinkCallOk(lk, resourceID, inj, c2)
    THEN Result(removed, lk, vl, "KernelError", in.Name, NilSvi, c2)
    ELSE
    LET lk1 == [lk EXCEPT ![resourceID].up = FALSE]
        c3 == Append(c2, KCall("LinkDel", resourceID, <<>>, ""))
    IN
    IF ~LinkCallOk(lk1, resourceID, inj, c3)
    THEN Result(removed, lk1, vl, "KernelError", in.Name, NilSvi, c3)
    ELSE Result(removed, KernelLinkDel(lk1, resourceID), vl, "OK", in.Name,
                NilSvi, c3)

\* the link is set down, then deleted, then the entry is removed
DeleteSviLink(svis, lk, vl, in, obj, resourceID, calls, inj) ==
    LET c2 == Append(calls, KCall("LinkSetDown", resourceID, <<>>, "")) IN
    IF ~LinkCallOk(lk, resourceID, inj, c2)
    THEN Result(svis, lk, vl, "KernelError", in.Name, NilSvi, c2)
    ELSE
    LET lk1 == [lk EXCEPT ![resourceID].up = FALSE]
        c3 == Append(c2, KCall("LinkDel", resourceID, <<>>, ""))
    IN
    IF ~LinkCallOk(lk1, resourceID, inj, c3)
    THEN Result(svis, lk1, vl, "KernelError", in.Name, NilSvi, c3)
    ELSE Result(SvisDelete(svis, obj.Name), KernelLinkDel(lk1, resourceID), vl,
                "OK", in.Name, NilSvi, c3)

DeleteSviHandler(svis, lk, vl, in, inj) ==
    IF ~RequiredName(in.Name)
    THEN Result(svis, lk, vl, "InvalidArgument", in.Name, NilSvi, <<>>)
    ELSE IF ~resourcenameValidate(in.Name)
    THEN Result(svis, lk, vl, "InvalidArgument", in.Name, NilSvi, <<>>)
    ELSE IF in.Name \notin DOMAIN svis
    THEN DeleteSviMissing(svis, lk, vl, in)
    ELSE
    LET obj == svis[in.Name]
        resourceID == PathBase(obj.Name)
        c1 == <<KCall("LinkByName", resourceID, <<>>, "")>>
    IN
    IF ~netlinkLinkByName(lk, resourceID)
    THEN DeleteSviNoLink(svis, lk, vl, in, obj, c1)
    ELSE DeleteSviLink(svis, lk, vl, in, obj, resourceID, c1, inj)

----------------------------------------------------------------------------
(* UpdateSvi *)

\* the name is not in the registry: the entry is created from the request
UpdateSviMissingUpsert(svis, lk, vl, in) ==
    LET response == [Name |-> in.Svi.Name, Spec |-> in.Svi.Spec, Status |-> "UP"]
    IN  Result(SvisPut(svis, in.Svi.Name, response), lk, vl, "OK", in.Svi.Name,
               response, <<>>)

\* the name is not in the registry: not found, whatever allow_missing says
UpdateSviMissing(svis, lk, vl, in) ==
    Result(svis, lk, vl, "NotFound", in.Svi.Name, NilSvi, <<>>)

\* the stored spec with the fields the mask names taken from the request
MergeMasked(old, new, mask) ==
    LET named(f) == \E i \in 1..Len(mask) : mask[i] \in {"*", "spec", f}
    IN  MkSpec(IF named("spec.vrf") THEN new.Vrf ELSE old.Vrf,
               IF named("spec.logical_bridge") THEN new.LogicalBridge
                                               ELSE old.LogicalBridge,
               IF named("spec.mac_address") THEN new.MacAddress ELSE old.MacAddress,
               IF named("spec.gw_ip_prefix") THEN new.GwIpPrefix ELSE old.GwIpPrefix,
               IF named("spec.enable_bgp") THEN new.EnableBgp ELSE old.EnableBgp,
               IF named("spec.remote_as") THEN new.RemoteAs ELSE old.RemoteAs)

\* the commit merges the masked fields into the stored entry
UpdateSviCommitMasked(svis, lk, vl, in, calls) ==
    LET response == [Name |-> in.Svi.Name,
                     Spec |-> MergeMasked(svis[in.Svi.Name].Spec, in.Svi.Spec,
                                          in.UpdateMask),
                     Status |-> "UP"]
    IN  Result([svis EXCEPT ![in.Svi.Name] = response], lk, vl, "OK",
               in.Svi.Name, response, calls)

\* the commit stores the request's Svi as it came, without a status
UpdateSviCommitNoStatus(svis, lk, vl, in, calls) ==
    LET response == [Name |-> in.Svi.Name, Spec |-> in.Svi.Spec, Status |-> "NIL"]
    IN  Result([svis EXCEPT ![in.Svi.Name] = response], lk, vl, "OK",
               in.Svi.Name, response, calls)

\* the commit: a clone of the request's Svi, status UP, stored under its name
UpdateSviCommit(svis, lk, vl, in, calls) ==
    LET response == [Name |-> in.Svi.Name, Spec |-> in.Svi.Spec, Status |-> "UP"]
    IN  Result([svis EXCEPT ![in.Svi.Name] = response], lk, vl, "OK",
               in.Svi.Name, response, calls)

UpdateSviHandler(svis, lk, vl, in, inj) ==
    IF ~RequiredSviFields(in.Svi.Spec)
    THEN Result(svis, lk, vl, "InvalidArgument", in.Svi.Name, NilSvi, <<>>)
    ELSE IF ~resourcenameValidate(in.Svi.Name)
    THEN Result(svis, lk, vl, "InvalidArgument", in.Svi.Name, NilSvi, <<>>)
    ELSE IF in.Svi.Name \notin DOMAIN svis
    THEN UpdateSviMissing(svis, lk, vl, in)
    ELSE IF ~fieldmaskValidate(in.UpdateMask)
    THEN Result(svis, lk, vl, "InvalidArgument", in.Svi.Name, NilSvi, <<>>)
    ELSE
    LET svi == svis[in.Svi.Name]
        resourceID == PathBase(svi.Name)
        c1 == <<KCall("LinkByName", resourceID, <<>>, "")>>
    IN
    IF ~netlinkLinkByName(lk, resourceID)
    THEN Result(svis, lk, vl, "NotFound", in.Svi.Name, NilSvi, c1)
    ELSE
    LET c2 == Append(c1, KCall("LinkModify", resourceID, <<>>, "")) IN
    IF ~LinkCallOk(lk, resourceID, inj, c2)
    THEN Result(svis, lk, vl, "KernelError", in.Svi.Name, NilSvi, c2)
    ELSE UpdateSviCommit(svis, lk, vl, in, c2)

----------------------------------------------------------------------------
(* GetSvi *)

\* GetSviResponse without the remote AS
GetSviResponseNoRemoteAs(in, obj) ==
    [Name |-> in.Name,
     Spec |-> MkSpec(<<"">>, <<"">>, obj.Spec.MacAddress, <<>>,
                     obj.Spec.EnableBgp, 0),
     Status |-> "UP"]

\* the Svi GetSvi builds: the requested name, three fields of the stored
\* spec, status UP
GetSviResponse(in, obj) ==
    [Name |-> in.Name,
     Spec |-> MkSpec(<<"">>, <<"">>, obj.Spec.MacAddress, <<>>,
                     obj.Spec.EnableBgp, obj.Spec.RemoteAs),
     Status |-> "UP"]

\* GetSviHandler that answers from the registry alone
GetSviHandlerNoLinkCheck(svis, lk, vl, in) ==
    IF ~RequiredName(in.Name)
    THEN Result(svis, lk, vl, "InvalidArgument", in.Name, NilSvi, <<>>)
    ELSE IF ~resourcenameValidate(in.Name)
    THEN Result(svis, lk, vl, "InvalidArgument", in.Name, NilSvi, <<>>)
    ELSE IF in.Name \notin DOMAIN svis
    THEN Result(svis, lk, vl, "NotFound", in.Name, NilSvi, <<>>)
    ELSE Result(svis, lk, vl, "OK", in.Name, GetSviResponse(in, svis[in.Name]),
                <<>>)

GetSviHandler(svis, lk, vl, in) ==
    IF ~RequiredName(in.Name)
    THEN Result(svis, lk, vl, "InvalidArgument", in.Name, NilSvi, <<>>)
    ELSE IF ~resourcenameValidate(in.Name)
    THEN Result(svis, lk, vl, "InvalidArgument", in.Name, NilSvi, <<>>)
    ELSE IF in.Name \notin DOMAIN svis
    THEN Result(svis, lk, vl, "NotFound", in.Name, NilSvi, <<>>)
    ELSE
    LET obj == svis[in.Name]
        resourceID == PathBase(obj.Name)
        c1 == <<KCall("LinkByName", resourceID, <<>>, "")>>
    IN
    IF ~netlinkLinkByName(lk, resourceID)
    THEN Result(svis, lk, vl, "NotFound", in.Name, NilSvi, c1)
    ELSE Result(svis, lk, vl, "OK", in.Name, GetSviResponse(in, obj), c1)

----------------------------------------------------------------------------
(* The state machine: one request at a time, and the kernel changing under it *)

\* the failures a request can see: none, or any one of the mutating netlink
\* calls it issues (a lookup fails only when the link is absent)
Failures(calls) ==
    {NoFail} \cup { i \in 1..Len(calls) : calls[i].fn # "LinkByName" }

\* the links other parties add and remove. A system-generated ID is a
\* 36-character UUID and an interface name has at most 15 characters, so no
\* link carries a system-generated ID.
KernelLinkNames == {tenantbridgeName, testVrfID} \cup UserSettableIds

\* the event recorded in last
Event(op, spec, allowMissing, r) ==
    [op |-> op, spec |-> spec, allowMissing |-> allowMissing, code |-> r.code,
     name |-> r.name, ret |-> r.ret, calls |-> r.calls]

Commit(op, spec, allowMissing, result) ==
    \E r \in {result} :
    /\ Svis' = r.Svis
    /\ links' = r.links
    /\ bridgeVlans' = r.vlans
    /\ last' = Event(op, spec, allowMissing, r)
    /\ UNCHANGED <<Bridges, Vrfs, inflight>>

Init ==
    /\ Svis = <<>>
    /\ Bridges = [n \in {testLogicalBridgeName} |-> testLogicalBridgeWithStatus]
    /\ Vrfs = [n \in {testVrfName} |-> testVrfWithStatus]
    /\ \E present \in SUBSET KernelLinkNames :
          links = [n \in present |-> ExternalLink]
    /\ bridgeVlans = {}
    /\ inflight = <<>>
    /\ last = Event("Start", ZeroSpec, FALSE,
                    Result(<<>>, <<>>, {}, "OK", NoName, NilSvi, <<>>))

CreateSvi ==
    \E in \in CreateRequests, gen \in SystemGeneratedIds :
        LET r0 == CreateSviHandler(Svis, Bridges, Vrfs, links, bridgeVlans, in,
                                   gen, NoFail)
        IN  \E inj \in Failures(r0.calls) :
                Commit("CreateSvi", in.Spec, FALSE,
                       CreateSviHandler(Svis, Bridges, Vrfs, links, bridgeVlans,
                                        in, gen, inj))

DeleteSvi ==
    \E in \in DeleteRequests :
        LET r0 == DeleteSviHandler(Svis, links, bridgeVlans, in, NoFail)
        IN  \E inj \in Failures(r0.calls) :
                Commit("DeleteSvi", ZeroSpec, in.AllowMissing,
                       DeleteSviHandler(Svis, links, bridgeVlans, in, inj))

UpdateSvi ==
    \E in \in UpdateRequests :
        LET r0 == UpdateSviHandler(Svis, links, bridgeVlans, in, NoFail)
        IN  \E inj \in Failures(r0.calls) :
                Commit("UpdateSvi", in.Svi.Spec, FALSE,
                       UpdateSviHandler(Svis, links, bridgeVlans, in, inj))

GetSvi ==
    \E in \in GetRequests :
        LET r == GetSviHandler(Svis, links, bridgeVlans, in)
        IN  Commit("GetSvi", ZeroSpec, FALSE, r)

\* another party adds a link (ip link add)
ExternalLinkAdd ==
    \E n \in KernelLinkNames \ DOMAIN links :
        /\ links' = [m \in DOMAIN links \cup {n} |->
                        IF m = n THEN ExternalLink ELSE links[m]]
        /\ last' = Event("ExternalLinkAdd", ZeroSpec, FALSE,
                         Result(Svis, links', bridgeVlans, "OK", <<n>>, NilSvi, <<>>))
        /\ UNCHANGED <<Svis, Bridges, Vrfs, bridgeVlans, inflight>>

\* another party removes a link (ip link del); the VLANs of a removed tenant
\* bridge go with it
ExternalLinkDel ==
    \E n \in DOMAIN links :
        /\ links' = KernelLinkDel(links, n)
        /\ bridgeVlans' = IF n = tenantbridgeName THEN {} ELSE bridgeVlans
        /\ last' = Event("ExternalLinkDel", ZeroSpec, FALSE,
                         Result(Svis, links', bridgeVlans', "OK", <<n>>, NilSvi, <<>>))
        /\ UNCHANGED <<Svis, Bridges, Vrfs, inflight>>

Next ==
    \/ CreateSvi
    \/ DeleteSvi
    \/ UpdateSvi
    \/ GetSvi
    \/ ExternalLinkAdd
    \/ ExternalLinkDel

Spec == Init /\ [][Next]_vars

----------------------------------------------------------------------------
(* Two SVIs side by side: the same handlers, requests for two names, every
   link in the kernel at the start *)

TwoSviIds == UserSettableIds \cup {SecondSviId}
TwoSviNames == { resourceIDToFullName("svis", id) : id \in TwoSviIds }
TwoSviSpecs == {FullSpec, BareSpec}

TwoInit ==
    /\ Svis = <<>>
    /\ Bridges = [n \in {testLogicalBridgeName} |-> testLogicalBridgeWithStatus]
    /\ Vrfs = [n \in {testVrfName} |-> testVrfWithStatus]
    /\ links = [n \in {tenantbridgeName, testVrfID} \cup TwoSviIds |-> ExternalLink]
    /\ bridgeVlans = {}
    /\ inflight = <<>>
    /\ last = Event("Start", ZeroSpec, FALSE,
                    Result(<<>>, <<>>, {}, "OK", NoName, NilSvi, <<>>))

TwoCreateSvi ==
    \E id \in TwoSviIds, spec \in TwoSviSpecs, gen \in SystemGeneratedIds :
        LET in == [SviId |-> id, Spec |-> spec]
            r0 == CreateSviHandler(Svis, Bridges, Vrfs, links, bridgeVlans, in,
                                   gen, NoFail)
        IN  \E inj \in Failures(r0.calls) :
                Commit("CreateSvi", in.Spec, FALSE,
                       CreateSviHandler(Svis, Bridges, Vrfs, links, bridgeVlans,
                                        in, gen, inj))

TwoUpdateSvi ==
    \E n \in TwoSviNames, spec \in TwoSviSpecs :
        LET in == [Svi |-> [Name |-> n, Spec |-> spec],
                   UpdateMask |-> <<"spec.mac_address">>]
            r0 == UpdateSviHandler(Svis, links, bridgeVlans, in, NoFail)
        IN  \E inj \in Failures(r0.calls) :
                Commit("UpdateSvi", in.Svi.Spec, FALSE,
                       UpdateSviHandler(Svis, links, bridgeVlans, in, inj))

TwoDeleteSvi ==
    \E n \in TwoSviNames :
        LET in == [Name |-> n, AllowMissing |-> FALSE]
            r0 == DeleteSviHandler(Svis, links, bridgeVlans, in, NoFail)
        IN  \E inj \in Failures(r0.calls) :
                Commit("DeleteSvi", ZeroSpec, in.AllowMissing,
                       DeleteSviHandler(Svis, links, bridgeVlans, in, inj))

\* another party adds the link of an SVI again
TwoExternalLinkAdd ==
    \E n \in TwoSviIds \ DOMAIN links :
        /\ links' = [m \in DOMAIN links \cup {n} |->
                        IF m = n THEN ExternalLink ELSE links[m]]
        /\ last' = Event("ExternalLinkAdd", ZeroSpec, FALSE,
                         Result(Svis, links', bridgeVlans, "OK", <<n>>, NilSvi, <<>>))
        /\ UNCHANGED <<Svis, Bridges, Vrfs, bridgeVlans, inflight>>

TwoNext ==
    \/ TwoCreateSvi
    \/ TwoUpdateSvi
    \/ TwoDeleteSvi
    \/ TwoExternalLinkAdd

TwoSpec == TwoInit /\ [][TwoNext]_vars

----------------------------------------------------------------------------
(* Name resolution on its own: a short ID is drawn, resourceIDToFullName
   resolves it in one collection after another, and path.Base takes the short
   ID back out of each name *)

NameCollections == {"bridges", "vrfs", "svis"}
NameIds ==
    UserSettableIds \cup SystemGeneratedIds
    \cup {SecondSviId, testLogicalBridgeID, testVrfID}

\* f with x mapped to y
MapPut(f, x, y) == [z \in DOMAIN f \cup {x} |-> IF z = x THEN y ELSE f[z]]

NameInit ==
    /\ Svis = <<>>
    /\ Bridges = [n \in {testLogicalBridgeName} |-> testLogicalBridgeWithStatus]
    /\ Vrfs = [n \in {testVrfName} |-> testVrfWithStatus]
    /\ links = <<>>
    /\ bridgeVlans = {}
    /\ inflight = <<>>
    /\ \E id \in NameIds :
          last = [op |-> "Start", id |-> id, names |-> <<>>, shortIDs |-> <<>>]

\* resourceIDToFullName(collection, id)
NameResolve ==
    /\ \E c \in NameCollections \ DOMAIN last.names :
          last' = [last EXCEPT
                     !.op = "resourceIDToFullName",
                     !.names = MapPut(@, c, resourceIDToFullName(c, last.id))]
    /\ UNCHANGED <<Svis, Bridges, Vrfs, links, bridgeVlans, inflight>>

\* path.Base(name)
NameShortId ==
    /\ \E c \in DOMAIN last.names \ DOMAIN last.shortIDs :
          last' = [last EXCEPT
                     !.op = "path.Base",
                     !.shortIDs = MapPut(@, c, PathBase(last.names[c]))]
    /\ UNCHANGED <<Svis, Bridges, Vrfs, links, bridgeVlans, inflight>>

NameNext ==
    \/ NameResolve
    \/ NameShortId

NameSpec == NameInit /\ [][NameNext]_vars

----------------------------------------------------------------------------
(* Two CreateSvi requests for one name, each in its own goroutine: a step is
   one access to the registry or one netlink call, and the steps of the two
   handlers interleave in any order. Nothing in the handler locks s.Svis. *)

ConcCallers == {"a", "b"}

\* the request of caller p as it starts
ConcRequest(spec) ==
    [in |-> [SviId |-> "svi0", Spec |-> spec], pc |-> "check", i |-> 1,
     calls |-> <<>>, code |-> "", ret |-> NilSvi]

ConcName(p) == resourceIDToFullName("svis", inflight[p].in.SviId)

\* the handler of p moves on to position pc with the call log calls
ConcGoto(p, pc, calls) ==
    inflight' = [inflight EXCEPT ![p].pc = pc, ![p].calls = calls]

\* the handler of p returns code and ret
ConcReturn(p, code, ret, calls) ==
    inflight' = [inflight EXCEPT ![p].pc = "done", ![p].code = code,
                                 ![p].ret = ret, ![p].calls = calls]

ConcInit ==
    /\ Svis = <<>>
    /\ Bridges = [n \in {testLogicalBridgeName} |-> testLogicalBridgeWithStatus]
    /\ Vrfs = [n \in {testVrfName} |-> testVrfWithStatus]
    /\ \E present \in SUBSET KernelLinkNames :
          links = [n \in present |-> ExternalLink]
    /\ bridgeVlans = {}
    /\ \E specs \in [ConcCallers -> TwoSviSpecs] :
          inflight = [p \in ConcCallers |-> ConcRequest(specs[p])]
    /\ last = [op |-> "Start", commits |-> <<>>]

\* validation and the existence check on s.Svis
ConcCheck(p) ==
    /\ inflight[p].pc = "check"
    /\ LET in == inflight[p].in IN
       IF ~RequiredSviFields(in.Spec) \/ ~resourceidValidateUserSettable(in.SviId)
       THEN ConcReturn(p, "InvalidArgument", NilSvi, <<>>)
       ELSE IF ConcName(p) \in DOMAIN Svis
       THEN ConcReturn(p, "OK", Svis[ConcName(p)], <<>>)
       ELSE ConcGoto(p, "tenant", <<>>)
    /\ UNCHANGED <<Svis, Bridges, Vrfs, links, bridgeVlans, last>>

\* netlink.LinkByName(tenantbridgeName)
ConcTenant(p) ==
    /\ inflight[p].pc = "tenant"
    /\ LET c == Append(inflight[p].calls,
                       KCall("LinkByName", tenantbridgeName, <<>>, ""))
       IN  IF ~netlinkLinkByName(links, tenantbridgeName)
           THEN ConcReturn(p, "NotFound", NilSvi, c)
           ELSE ConcGoto(p, "vlan", c)
    /\ UNCHANGED <<Svis, Bridges, Vrfs, links, bridgeVlans, last>>

\* the bridge lookup and netlink.BridgeVlanAdd
ConcVlan(p) ==
    /\ inflight[p].pc = "vlan"
    /\ LET spec == inflight[p].in.Spec IN
       IF ~resourcenameValidate(spec.LogicalBridge)
       THEN /\ ConcReturn(p, "InvalidArgument", NilSvi, inflight[p].calls)
            /\ UNCHANGED bridgeVlans
       ELSE IF spec.LogicalBridge \notin DOMAIN Bridges
       THEN /\ ConcReturn(p, "NotFound", NilSvi, inflight[p].calls)
            /\ UNCHANGED bridgeVlans
       ELSE
       LET vid == Bridges[spec.LogicalBridge].Spec.VlanId % 65536
           c == Append(inflight[p].calls,
                       KCall("BridgeVlanAdd", tenantbridgeName, <<vid>>, ""))
       IN  \E ok \in BOOLEAN :
             IF ~ok
             THEN /\ ConcReturn(p, "KernelError", NilSvi, c)
                  /\ UNCHANGED bridgeVlans
             ELSE /\ ConcGoto(p, "mac", c)
                  /\ bridgeVlans' = bridgeVlans \cup {vid}
    /\ UNCHANGED <<Svis, Bridges, Vrfs, links, last>>

\* netlink.LinkSetHardwareAddr, when the request has a MAC
ConcMac(p) ==
    /\ inflight[p].pc = "mac"
    /\ LET spec == inflight[p].in.Spec
           id == inflight[p].in.SviId
           c == Append(inflight[p].calls,
                       KCall("LinkSetHardwareAddr", id, spec.MacAddress, ""))
       IN  IF Len(spec.MacAddress) = 0
           THEN ConcGoto(p, "addr", inflight[p].calls) /\ UNCHANGED links
           ELSE \E ok \in BOOLEAN :
                  IF ~(id \in DOMAIN links /\ ok)
                  THEN ConcReturn(p, "KernelError", NilSvi, c) /\ UNCHANGED links
                  ELSE /\ ConcGoto(p, "addr", c)
                       /\ links' = [links EXCEPT ![id].mac = spec.MacAddress]
    /\ UNCHANGED <<Svis, Bridges, Vrfs, bridgeVlans, last>>

\* one round of the loop over GwIpPrefix: netlink.AddrAdd
ConcAddr(p) ==
    /\ inflight[p].pc = "addr"
    /\ LET gw == inflight[p].in.Spec.GwIpPrefix
           id == inflight[p].in.SviId
           i == inflight[p].i
       IN  IF i > Len(gw)
           THEN ConcGoto(p, "vrf", inflight[p].calls) /\ UNCHANGED links
           ELSE LET addr == KernelAddr(gw[i])
                    c == Append(inflight[p].calls, KCall("AddrAdd", id, addr, ""))
                IN  \E ok \in BOOLEAN :
                      IF ~(id \in DOMAIN links /\ ok)
                      THEN ConcReturn(p, "KernelError", NilSvi, c)
                           /\ UNCHANGED links
                      ELSE /\ inflight' = [inflight EXCEPT ![p].i = i + 1,
                                                           ![p].calls = c]
                           /\ links' = [links EXCEPT ![id].addrs = @ \cup {addr}]
    /\ UNCHANGED <<Svis, Bridges, Vrfs, bridgeVlans, last>>

\* the VRF lookup and netlink.LinkByName of the VRF device
ConcVrf(p) ==
    /\ inflight[p].pc = "vrf"
    /\ LET spec == inflight[p].in.Spec IN
       IF ~resourcenameValidate(spec.Vrf)
       THEN ConcReturn(p, "InvalidArgument", NilSvi, inflight[p].calls)
       ELSE IF spec.Vrf \notin DOMAIN Vrfs
       THEN ConcReturn(p, "NotFound", NilSvi, inflight[p].calls)
       ELSE
       LET vrfdev == PathBase(Vrfs[spec.Vrf].Name)
           c == Append(inflight[p].calls, KCall("LinkByName", vrfdev, <<>>, ""))
       IN  IF ~netlinkLinkByName(links, vrfdev)
           THEN ConcReturn(p, "NotFound", NilSvi, c)
           ELSE ConcGoto(p, "master", c)
    /\ UNCHANGED <<Svis, Bridges, Vrfs, links, bridgeVlans, last>>

\* netlink.LinkSetMaster
ConcMaster(p) ==
    /\ inflight[p].pc = "master"
    /\ LET id == inflight[p].in.SviId
           vrfdev == PathBase(Vrfs[inflight[p].in.Spec.Vrf].Name)
           c == Append(inflight[p].calls, KCall("LinkSetMaster", id, <<>>, vrfdev))
       IN  \E ok \in BOOLEAN :
             IF ~(id \in DOMAIN links /\ ok)
             THEN ConcReturn(p, "KernelError", NilSvi, c) /\ UNCHANGED links
             ELSE /\ ConcGoto(p, "up", c)
                  /\ links' = [links EXCEPT ![id].master = vrfdev]
    /\ UNCHANGED <<Svis, Bridges, Vrfs, bridgeVlans, last>>

\* netlink.LinkSetUp
ConcUp(p) ==
    /\ inflight[p].pc = "up"
    /\ LET id == inflight[p].in.SviId
           c == Append(inflight[p].calls, KCall("LinkSetUp", id, <<>>, ""))
       IN  \E ok \in BOOLEAN :
             IF ~(id \in DOMAIN links /\ ok)
             THEN ConcReturn(p, "KernelError", NilSvi, c) /\ UNCHANGED links
             ELSE /\ ConcGoto(p, "commit", c)
                  /\ links' = [links EXCEPT ![id].up = TRUE]
    /\ UNCHANGED <<Svis, Bridges, Vrfs, bridgeVlans, last>>

\* the response is cloned from the request, marked UP and stored
ConcCommit(p) ==
    /\ inflight[p].pc = "commit"
    /\ LET response == [Name |-> ConcName(p), Spec |-> inflight[p].in.Spec,
                        Status |-> "UP"]
       IN  /\ Svis' = SvisPut(Svis, ConcName(p), response)
           /\ ConcReturn(p, "OK", response, inflight[p].calls)
    /\ last' = [op |-> "CreateSvi", commits |-> Append(last.commits, p)]
    /\ UNCHANGED <<Bridges, Vrfs, links, bridgeVlans>>

\* two goroutines are at s.Svis at once and one of them writes: the Go
\* runtime may see the unsynchronized map access and stop the process
\* ("fatal error: concurrent map writes"); no handler returns
ConcMapFault ==
    /\ \E p, q \in ConcCallers :
          /\ p # q
          /\ inflight[p].pc = "commit"
          /\ inflight[q].pc \in {"check", "commit"}
    /\ inflight' = [p \in ConcCallers |-> [inflight[p] EXCEPT !.pc = "crashed"]]
    /\ UNCHANGED <<Svis, Bridges, Vrfs, links, bridgeVlans, last>>

ConcNext ==
    \/ \E p \in ConcCallers : ConcCheck(p)
    \/ \E p \in ConcCallers : ConcTenant(p)
    \/ \E p \in ConcCallers : ConcVlan(p)
    \/ \E p \in ConcCallers : ConcMac(p)
    \/ \E p \in ConcCallers : ConcAddr(p)
    \/ \E p \in ConcCallers : ConcVrf(p)
    \/ \E p \in ConcCallers : ConcMaster(p)
    \/ \E p \in ConcCallers : ConcUp(p)
    \/ \E p \in ConcCallers : ConcCommit(p)
    \/ ConcMapFault

ConcSpec == ConcInit /\ [][ConcNext]_vars

----------------------------------------------------------------------------
(* Properties *)

\* the calls of a log that change the kernel (everything but lookups)
MutatingCalls(calls) == SelectSeq(calls, LAMBDA c : c.fn # "LinkByName")

\* the request recorded in last' ran CreateSvi on a name the registry did
\* not hold when it started
CreatedNewName ==
    /\ last'.op = "CreateSvi"
    /\ last'.name # NoName
    /\ last'.name \notin DOMAIN Svis

\* C1: a CreateSvi right after a successful CreateSvi of the same canonical
\* name returns the object the first one returned, which is the stored one,
\* whatever spec it carries; it issues no kernel call and changes neither the
\* registry nor the kernel.
C1_IdempotentCreate ==
    [][ ( /\ last.op = "CreateSvi" /\ last.code = "OK"
          /\ last'.op = "CreateSvi" /\ last'.name = last.name )
        => ( /\ last'.code = "OK"
             /\ last'.ret = last.ret
             /\ last'.ret = Svis[last.name]
             /\ last'.calls = <<>>
             /\ Svis' = Svis
             /\ links' = links
             /\ bridgeVlans' = bridgeVlans ) ]_vars

\* a CreateSvi found the name registered and returned the stored object,
\* whose spec is not the one the request carried
C1_Witness ==
    /\ last.op = "CreateSvi" /\ last.code = "OK" /\ last.calls = <<>>
    /\ last.name \in DOMAIN Svis
    /\ last.ret = Svis[last.name]
    /\ last.spec # last.ret.Spec

\* C2: a CreateSvi that returns an error, at whatever point, leaves the SVI
\* registry as it was.
C2_RegistryOnlyOnSuccess ==
    [][ (last'.op = "CreateSvi" /\ last'.code # "OK") => Svis' = Svis ]_vars

\* a CreateSvi failed at its last kernel step, the activation, after the
\* master attachment took effect, and the name is not registered
C2_Witness ==
    /\ last.op = "CreateSvi" /\ last.code = "KernelError"
    /\ last.calls # <<>>
    /\ last.calls[Len(last.calls)].fn = "LinkSetUp"
    /\ PathBase(last.name) \in DOMAIN links
    /\ links[PathBase(last.name)].master = testVrfID
    /\ last.name \notin DOMAIN Svis

\* C3: after a CreateSvi that configured a new SVI successfully, the request
\* has created the link (a LinkAdd of the short ID) and the kernel holds the
\* link named after the short ID as a VLAN sub-interface of the tenant bridge
\* with the referenced bridge's VLAN ID.
C3_LinkCreated ==
    ( last.op = "CreateSvi" /\ last.code = "OK" /\ last.calls # <<>> )
    => LET id == PathBase(last.name) IN
       /\ \E i \in 1..Len(last.calls) :
             last.calls[i].fn = "LinkAdd" /\ last.calls[i].dev = id
       /\ id \in DOMAIN links
       /\ links[id].parent = tenantbridgeName
       /\ links[id].vlanId = Bridges[last.spec.LogicalBridge].Spec.VlanId

\* C4 as stated: a GetSvi right after any successful CreateSvi of the same
\* name succeeds and returns the MAC address, BGP flag and remote AS of the
\* spec that CreateSvi carried, with status UP.
C4_RoundTripAnyCreate ==
    [][ ( /\ last.op = "CreateSvi" /\ last.code = "OK"
          /\ last'.op = "GetSvi" /\ last'.name = last.name )
        => ( /\ last'.code = "OK"
             /\ last'.ret.Spec.MacAddress = last.spec.MacAddress
             /\ last'.ret.Spec.EnableBgp = last.spec.EnableBgp
             /\ last'.ret.Spec.RemoteAs = last.spec.RemoteAs
             /\ last'.ret.Status = "UP" ) ]_vars

\* C4 (amended): a GetSvi right after a successful CreateSvi that created
\* the entry (it found no entry under the name and ran the kernel sequence)
\* succeeds and returns the MAC address, BGP flag and remote AS of the spec
\* that CreateSvi carried, with status UP.
C4_RoundTrip ==
    [][ ( /\ last.op = "CreateSvi" /\ last.code = "OK" /\ last.calls # <<>>
          /\ last'.op = "GetSvi" /\ last'.name = last.name )
        => ( /\ last'.code = "OK"
             /\ last'.name = last.ret.Name
             /\ last'.ret.Name = last.name
             /\ last'.ret.Spec.MacAddress = last.spec.MacAddress
             /\ last'.ret.Spec.EnableBgp = last.spec.EnableBgp
             /\ last'.ret.Spec.RemoteAs = last.spec.RemoteAs
             /\ last'.ret.Status = "UP" ) ]_vars

\* a GetSvi returned, with status UP, the MAC address, BGP flag and remote AS
\* of a registered SVI that CreateSvi stored from the full spec
C4_Witness ==
    /\ last.op = "GetSvi" /\ last.code = "OK"
    /\ last.name \in DOMAIN Svis
    /\ Svis[last.name].Spec = FullSpec
    /\ last.ret.Spec.MacAddress = Mac1
    /\ last.ret.Spec.EnableBgp = TRUE
    /\ last.ret.Spec.RemoteAs = 65000
    /\ last.ret.Status = "UP"

\* C5: a CreateSvi for a name not yet registered whose LogicalBridge name is
\* well-formed but absent from the bridge registry returns not-found, has
\* issued no netlink call but the lookup of the tenant bridge device, and
\* leaves the registry and the kernel as they were.
C5_BridgeReference ==
    [][ ( /\ CreatedNewName
          /\ resourcenameValidate(last'.spec.LogicalBridge)
          /\ last'.spec.LogicalBridge \notin DOMAIN Bridges )
        => ( /\ last'.code = "NotFound"
             /\ last'.calls = <<KCall("LinkByName", tenantbridgeName, <<>>, "")>>
             /\ last'.name \notin DOMAIN Svis'
             /\ Svis' = Svis
             /\ links' = links
             /\ bridgeVlans' = bridgeVlans ) ]_vars

\* a CreateSvi found the tenant bridge device, missed the referenced bridge in
\* the registry and returned not-found
C5_Witness ==
    /\ last.op = "CreateSvi" /\ last.code = "NotFound"
    /\ last.spec.LogicalBridge = absentBridgeName
    /\ tenantbridgeName \in DOMAIN links
    /\ last.calls = <<KCall("LinkByName", tenantbridgeName, <<>>, "")>>
    /\ last.name \notin DOMAIN Svis

\* C6: a CreateSvi for a name not yet registered whose Vrf name is
\* well-formed but absent from the VRF registry returns not-found and has
\* issued no netlink call other than lookups.
C6_VrfReference ==
    [][ ( /\ CreatedNewName
          /\ resourcenameValidate(last'.spec.Vrf)
          /\ last'.spec.Vrf \notin DOMAIN Vrfs )
        => ( /\ last'.code = "NotFound"
             /\ MutatingCalls(last'.calls) = <<>> ) ]_vars

\* C7: a DeleteSvi on a well-formed name the registry does not hold returns
\* success when allowMissing is true and not-found when it is false; either
\* way it issues no netlink call and changes neither registry nor kernel.
C7_DeleteAllowMissing ==
    [][ ( /\ last'.op = "DeleteSvi"
          /\ RequiredName(last'.name) /\ resourcenameValidate(last'.name)
          /\ last'.name \notin DOMAIN Svis )
        => ( /\ last'.allowMissing => last'.code = "OK"
             /\ ~last'.allowMissing => last'.code = "NotFound"
             /\ last'.calls = <<>>
             /\ Svis' = Svis
             /\ links' = links
             /\ bridgeVlans' = bridgeVlans ) ]_vars

\* a DeleteSvi with allowMissing on an unregistered name returned success
\* without a netlink call, while the kernel even has a link of that short ID
C7_Witness ==
    /\ last.op = "DeleteSvi" /\ last.allowMissing /\ last.code = "OK"
    /\ last.calls = <<>>
    /\ last.name \in SviNames
    /\ last.name \notin DOMAIN Svis
    /\ PathBase(last.name) \in DOMAIN links

\* C8: GetSvi changes neither registry nor kernel; on a registered name whose
\* link (named by the entry's short ID) is not in the kernel it returns
\* not-found and the entry stays.
C8_GetIsACheck ==
    [][ last'.op = "GetSvi"
        => ( /\ Svis' = Svis
             /\ links' = links
             /\ bridgeVlans' = bridgeVlans
             /\ ( /\ last'.name \in DOMAIN Svis
                  /\ PathBase(Svis[last'.name].Name) \notin DOMAIN links )
                => ( /\ last'.code = "NotFound"
                     /\ last'.ret = NilSvi
                     /\ last'.name \in DOMAIN Svis' ) ) ]_vars

\* a GetSvi on a registered name looked the link up, did not find it and
\* returned not-found; the entry is still registered
C8_Witness ==
    /\ last.op = "GetSvi" /\ last.code = "NotFound"
    /\ last.name \in DOMAIN Svis
    /\ PathBase(last.name) \notin DOMAIN links
    /\ last.calls = <<KCall("LinkByName", PathBase(last.name), <<>>, "")>>

\* C9: a DeleteSvi on a registered name whose link is in the kernel issues
\* LinkSetDown on the link first and LinkDel on it second; the entry is
\* removed only when both succeeded. When LinkSetDown fails no LinkDel is
\* issued and the link stays; when either fails the registry is unchanged.
C9_DeleteOrder ==
    [][ ( /\ last'.op = "DeleteSvi"
          /\ last'.name \in DOMAIN Svis
          /\ PathBase(Svis[last'.name].Name) \in DOMAIN links )
        => LET id == PathBase(Svis[last'.name].Name)
               c == last'.calls
               down == KCall("LinkSetDown", id, <<>>, "")
               del == KCall("LinkDel", id, <<>>, "")
           IN  /\ Len(c) \in {2, 3}
               /\ c[1] = KCall("LinkByName", id, <<>>, "")
               /\ c[2] = down
               /\ Len(c) = 3 => c[3] = del
               \* LinkSetDown failed: no LinkDel, the link is as it was
               /\ Len(c) = 2 => ( /\ last'.code = "KernelError"
                                  /\ links' = links )
               \* LinkDel was issued on a link that LinkSetDown had set down
               /\ (Len(c) = 3 /\ last'.code # "OK")
                  => ( /\ last'.code = "KernelError"
                       /\ id \in DOMAIN links'
                       /\ ~links'[id].up )
               /\ last'.code # "OK" => Svis' = Svis
               /\ last'.code = "OK"
                  => ( /\ Len(c) = 3
                       /\ id \notin DOMAIN links'
                       /\ Svis' = SvisDelete(Svis, last'.name) ) ]_vars

\* a DeleteSvi set the link down, failed to delete it and returned the
\* error; the entry is still registered and the link is down
C9_Witness ==
    /\ last.op = "DeleteSvi" /\ last.code = "KernelError"
    /\ Len(last.calls) = 3
    /\ last.calls[2].fn = "LinkSetDown"
    /\ last.calls[3].fn = "LinkDel"
    /\ last.name \in DOMAIN Svis
    /\ PathBase(last.name) \in DOMAIN links
    /\ ~links[PathBase(last.name)].up

\* C10: a DeleteSvi on a registered name whose link is not in the kernel
\* returns not-found for either allowMissing, issues only the lookup of the
\* link, and changes neither registry nor kernel.
C10_NoLinkNoDelete ==
    [][ ( /\ last'.op = "DeleteSvi"
          /\ last'.name \in DOMAIN Svis
          /\ PathBase(Svis[last'.name].Name) \notin DOMAIN links )
        => ( /\ last'.code = "NotFound"
             /\ last'.calls =
                    <<KCall("LinkByName", PathBase(Svis[last'.name].Name), <<>>, "")>>
             /\ Svis' = Svis
             /\ last'.name \in DOMAIN Svis'
             /\ links' = links
             /\ bridgeVlans' = bridgeVlans ) ]_vars

\* a DeleteSvi with allowMissing on a registered name whose link is gone
\* returned not-found, and the entry is still registered
C10_Witness ==
    /\ last.op = "DeleteSvi" /\ last.allowMissing /\ last.code = "NotFound"
    /\ last.name \in DOMAIN Svis
    /\ PathBase(last.name) \notin DOMAIN links
    /\ MutatingCalls(last.calls) = <<>>


\* C11: UpdateSvi needs an existing entry and never creates one. A well-formed
\* request for a name the registry does not hold returns not-found; no request
\* for such a name issues a kernel call or leaves an entry behind; and every
\* UpdateSvi that returns an error (name absent, bad mask, link absent,
\* LinkModify failure, validation) leaves the registry as it was.
C11_UpdateRequiresEntry ==
    [][ last'.op = "UpdateSvi" =>
          /\ last'.code # "OK" => Svis' = Svis
          /\ last'.name \notin DOMAIN Svis =>
                /\ last'.code # "OK"
                /\ last'.calls = <<>>
                /\ last'.name \notin DOMAIN Svis'
                /\ links' = links
                /\ (RequiredSviFields(last'.spec) /\ resourcenameValidate(last'.name))
                      => last'.code = "NotFound" ]_vars

\* an UpdateSvi for an unregistered name whose link is in the kernel returned
\* not-found without a kernel call and left the registry empty
C11_Witness ==
    /\ last.op = "UpdateSvi"
    /\ last.code = "NotFound"
    /\ last.calls = <<>>
    /\ last.name \in SviNames
    /\ PathBase(last.name) \in DOMAIN links
    /\ Svis = <<>>


\* C12: a successful UpdateSvi replaces the entry wholesale: afterwards the
\* registry is the one before with the entry of the request's name set to the
\* request's Svi with status UP (every field of the spec, whatever the mask
\* names), that object is what the caller gets, and no other entry changed.
C12_UpdateReplacesEntry ==
    [][ (last'.op = "UpdateSvi" /\ last'.code = "OK") =>
          /\ last'.name \in DOMAIN Svis
          /\ Svis' = [Svis EXCEPT ![last'.name] =
                         [Name |-> last'.name, Spec |-> last'.spec, Status |-> "UP"]]
          /\ last'.ret = Svis'[last'.name] ]_vars

\* an UpdateSvi with the mask spec.mac_address succeeded with a spec without
\* gateways on an SVI whose link still carries the addresses of its creation,
\* the entry now holds the request's spec, and a second SVI is registered
\* with another spec
C12_Witness ==
    /\ last.op = "UpdateSvi"
    /\ last.code = "OK"
    /\ last.spec = BareSpec
    /\ Svis[last.name].Spec = BareSpec
    /\ links[PathBase(last.name)].addrs # {}
    /\ \E n \in DOMAIN Svis : n # last.name /\ Svis[n].Spec = FullSpec


\* C13: the canonical name of short ID i in collection c is
\* //network.opiproject.org/c/i: it names collection c, so that one short ID
\* resolved in two collections gives two names, and its final path segment
\* is i.
C13_NameResolution ==
    /\ \A c \in DOMAIN last.names :
          last.names[c] = <<"", "", "network.opiproject.org", c, last.id>>
    /\ \A c, d \in DOMAIN last.names : c # d => last.names[c] # last.names[d]
    /\ \A c \in DOMAIN last.shortIDs : last.shortIDs[c] = last.id


\* the function names of a call log
CallFns(calls) == [i \in 1..Len(calls) |-> calls[i].fn]

\* a is a prefix of b
IsPrefix(a, b) == Len(a) <= Len(b) /\ SubSeq(b, 1, Len(a)) = a

\* the kernel steps of a create in the order of the orchestrator's steps
CreateStepOrder(spec) ==
    <<"BridgeVlanAdd", "LinkAdd">>
    \o (IF spec.MacAddress # <<>> THEN <<"LinkSetHardwareAddr">> ELSE <<>>)
    \o [i \in 1..Len(spec.GwIpPrefix) |-> "AddrAdd"]
    \o <<"LinkSetMaster", "LinkSetUp">>

\* C14: a CreateSvi that reaches the kernel steps issues them in the order
\* VLAN admission, link creation, MAC assignment (with a hardware address
\* only), one address assignment per gateway prefix, master attachment,
\* activation: what it issued is a prefix of that order (a step runs only
\* after all earlier ones), and it commits the entry exactly when it issued
\* them all and none failed.
C14_CreateStepOrder ==
    ( last.op = "CreateSvi" /\ MutatingCalls(last.calls) # <<>> )
    => LET fns == CallFns(MutatingCalls(last.calls)) IN
       /\ IsPrefix(fns, CreateStepOrder(last.spec))
       /\ last.code = "OK" => ( fns = CreateStepOrder(last.spec)
                                /\ last.name \in DOMAIN Svis )


\* the kernel holds what the call c set
CallEffectPresent(c, lk, vl) ==
    CASE c.fn = "BridgeVlanAdd" -> c.num[1] \in vl
      [] c.fn = "LinkSetHardwareAddr" -> lk[c.dev].mac = c.num
      [] c.fn = "AddrAdd" -> c.num \in lk[c.dev].addrs
      [] c.fn = "LinkSetMaster" -> lk[c.dev].master = c.peer
      [] c.fn = "LinkSetUp" -> lk[c.dev].up
      [] OTHER -> FALSE

\* C15: a CreateSvi for a new name that fails issues no compensating call:
\* every mutating call in its log is a configuration step, the effect of
\* each step that succeeded (the VLAN on the tenant bridge, the link, the
\* MAC, each address before the failing one, the master) is in the kernel
\* when the error is returned, nothing the kernel held before is gone, and
\* the registry has no entry for the name. The link is created right after
\* the VLAN admission, so a request that got past the admission and failed
\* at a later step leaves the link named after the short ID as a VLAN child
\* of the tenant bridge.
C15_NoRollback ==
    [][ (CreatedNewName /\ last'.code # "OK") =>
          LET m == MutatingCalls(last'.calls)
              succeeded == IF last'.code = "KernelError" THEN Len(m) - 1
                           ELSE Len(m)
          IN  /\ \A i \in 1..succeeded :
                     CallEffectPresent(m[i], links', bridgeVlans')
              /\ last'.code = "KernelError" => m # <<>>
              /\ succeeded >= 1 =>
                     LET id == PathBase(last'.name) IN
                     /\ id \in DOMAIN links'
                     /\ links'[id].parent = tenantbridgeName
                     /\ links'[id].vlanId = m[1].num[1]
              /\ bridgeVlans \subseteq bridgeVlans'
              /\ DOMAIN links' = DOMAIN links
              /\ \A n \in DOMAIN links :
                     /\ links[n].addrs \subseteq links'[n].addrs
                     /\ links[n].up => links'[n].up
                     /\ links[n].parent = links'[n].parent
              /\ Svis' = Svis
              /\ last'.name \notin DOMAIN Svis' ]_vars


\* C16: nothing orders the existence check of one CreateSvi against the
\* commit of another. Whenever two concurrent requests for one name both
\* return OK with a call log of their own (neither was answered from the
\* registry: both passed the existence check before either committed), each
\* of them issued the whole kernel sequence, both committed, each caller got
\* the object made from its own request, and the registry holds the object
\* of the later commit.
C16_RacingCreates ==
    \A p, q \in ConcCallers :
        ( /\ p # q
          /\ \A r \in {p, q} : /\ inflight[r].pc = "done"
                                /\ inflight[r].code = "OK"
                                /\ inflight[r].calls # <<>> )
        => /\ Len(last.commits) = 2
           /\ \A r \in {p, q} :
                 /\ CallFns(MutatingCalls(inflight[r].calls))
                      = SelectSeq(CreateStepOrder(inflight[r].in.Spec),
                                  LAMBDA f : f # "LinkAdd")
                 /\ inflight[r].ret = [Name |-> ConcName(r),
                                       Spec |-> inflight[r].in.Spec,
                                       Status |-> "UP"]
           /\ Svis[ConcName(p)] = inflight[last.commits[2]].ret

\* both callers passed the existence check, ran the kernel sequence and
\* committed; they hold different objects and the registry holds the one of
\* the later commit, not the one the first committer was given
C16_Witness ==
    /\ \A r \in ConcCallers : /\ inflight[r].pc = "done"
                               /\ inflight[r].code = "OK"
                               /\ inflight[r].calls # <<>>
    /\ Len(last.commits) = 2
    /\ inflight[last.commits[1]].ret # inflight[last.commits[2]].ret
    /\ Svis[ConcName(last.commits[2])] = inflight[last.commits[2]].ret
    /\ Svis[ConcName(last.commits[1])] # inflight[last.commits[1]].ret


\* C17: a CreateSvi right after a CreateSvi of the same name that failed at
\* a kernel step is not answered from the registry: it starts over with the
\* lookup of the tenant bridge and, carrying the same spec, with the VLAN
\* admission, on a kernel that still has what the failed attempt set. A
\* CreateSvi right after a successful one of the same name issues no call.
C17_RetryAfterFailure ==
    [][ ( /\ last.op = "CreateSvi" /\ last'.op = "CreateSvi"
          /\ last'.name = last.name /\ last.name # NoName ) =>
          /\ last.code = "KernelError" =>
                /\ last'.calls # <<>>
                /\ last'.calls[1] = KCall("LinkByName", tenantbridgeName, <<>>, "")
                /\ last'.spec = last.spec =>
                      /\ MutatingCalls(last'.calls) # <<>>
                      /\ MutatingCalls(last'.calls)[1]
                           = MutatingCalls(last.calls)[1]
                      /\ MutatingCalls(last'.calls)[1].fn = "BridgeVlanAdd"
                /\ \A i \in 1..(Len(MutatingCalls(last.calls)) - 1) :
                      CallEffectPresent(MutatingCalls(last.calls)[i], links',
                                        bridgeVlans')
          /\ last.code = "OK" =>
                /\ last'.calls = <<>>
                /\ last'.code = "OK"
                /\ links' = links /\ bridgeVlans' = bridgeVlans ]_vars

\* a CreateSvi without a MAC ran the kernel sequence to the end on a link
\* that carries the MAC an earlier, failed attempt had set
C17_Witness ==
    /\ last.op = "CreateSvi"
    /\ last.code = "OK"
    /\ last.spec = BareSpec
    /\ MutatingCalls(last.calls) # <<>>
    /\ MutatingCalls(last.calls)[1].fn = "BridgeVlanAdd"
    /\ links[PathBase(last.name)].mac = Mac1


\* C18: whatever requests ran, every entry of the SVI registry is stored
\* under its own Name and has status UP, and the bridge and VRF registries
\* are as they were at the start.
C18_RegistryInvariant ==
    /\ \A n \in DOMAIN Svis : Svis[n].Name = n /\ Svis[n].Status = "UP"
    /\ Bridges = [n \in {testLogicalBridgeName} |-> testLogicalBridgeWithStatus]
    /\ Vrfs = [n \in {testVrfName} |-> testVrfWithStatus]

\* an entry that a CreateSvi stored and an UpdateSvi then replaced with
\* another spec is in the registry
C18_Witness ==
    /\ last.op = "UpdateSvi"
    /\ last.code = "OK"
    /\ last.name \in DOMAIN Svis
    /\ Svis[last.name].Spec = last.spec
    /\ last.spec = BareSpec
    /\ links[PathBase(last.name)].mac = Mac1


\* C19: an SVI that is registered while the kernel has no link of its short
\* ID is stuck. A request on its name changes neither registry nor kernel
\* and issues no mutating call: GetSvi and DeleteSvi (with either
\* allow_missing) return not-found, UpdateSvi never succeeds and returns
\* not-found whenever its required fields and mask are well-formed, and
\* CreateSvi returns the stored object without a kernel call. Whatever
\* happens, the entry stays as it is, and the link comes back only when
\* another party adds it.
C19_StuckEntry ==
    [][ /\ ( /\ last'.op \in {"CreateSvi", "GetSvi", "UpdateSvi", "DeleteSvi"}
             /\ last'.name \in DOMAIN Svis
             /\ PathBase(last'.name) \notin DOMAIN links ) =>
             /\ Svis' = Svis /\ links' = links /\ bridgeVlans' = bridgeVlans
             /\ MutatingCalls(last'.calls) = <<>>
             /\ last'.op \in {"GetSvi", "DeleteSvi"} => last'.code = "NotFound"
             /\ last'.op = "UpdateSvi" =>
                   /\ last'.code \in {"NotFound", "InvalidArgument"}
                   /\ \A in \in UpdateRequests :
                         ( /\ in.Svi.Name = last'.name
                           /\ RequiredSviFields(in.Svi.Spec)
                           /\ fieldmaskValidate(in.UpdateMask) )
                         => UpdateSviHandler(Svis, links, bridgeVlans, in,
                                             NoFail).code = "NotFound"
             /\ last'.op = "CreateSvi" =>
                   /\ last'.code = "OK"
                   /\ last'.ret = Svis[last'.name]
                   /\ last'.calls = <<>>
        /\ \A n \in DOMAIN Svis :
             PathBase(n) \notin DOMAIN links =>
               /\ n \in DOMAIN Svis' /\ Svis'[n] = Svis[n]
               /\ PathBase(n) \in DOMAIN links' => last'.op = "ExternalLinkAdd"
      ]_vars

\* a well-formed UpdateSvi on a registered SVI whose link is gone looked the
\* link up, returned not-found and left the entry in the registry
C19_Witness ==
    /\ last.op = "UpdateSvi"
    /\ last.code = "NotFound"
    /\ RequiredSviFields(last.spec)
    /\ last.calls = <<KCall("LinkByName", PathBase(last.name), <<>>, "")>>
    /\ last.name \in DOMAIN Svis
    /\ PathBase(last.name) \notin DOMAIN links

\* C20: a CreateSvi for a name the registry does not hold, run while the
\* kernel has no tenant bridge device, returns not-found having issued the
\* lookup of the tenant bridge and nothing else, whatever bridge and VRF its
\* spec refers to (registered, unregistered or malformed); registry and
\* kernel are unchanged.
C20_TenantBridgePrecondition ==
    [][ (CreatedNewName /\ tenantbridgeName \notin DOMAIN links) =>
          /\ last'.code = "NotFound"
          /\ last'.calls = <<KCall("LinkByName", tenantbridgeName, <<>>, "")>>
          /\ Svis' = Svis
          /\ links' = links /\ bridgeVlans' = bridgeVlans ]_vars

\* a CreateSvi whose spec refers to a bridge that is not registered returned
\* not-found after the one lookup of the tenant bridge, which the kernel
\* does not have
C20_Witness ==
    /\ last.op = "CreateSvi"
    /\ last.code = "NotFound"
    /\ last.spec.LogicalBridge = absentBridgeName
    /\ last.calls = <<KCall("LinkByName", tenantbridgeName, <<>>, "")>>
    /\ tenantbridgeName \notin DOMAIN links
    /\ last.name \notin DOMAIN Svis

====
